---- MODULE Spec2Model ----
(***************************************************************************)
(* Model of mlbam/mlbv.py: main(), from the point where the command line   *)
(* has been parsed (line 140) to its return.  The module follows the       *)
(* control flow of main: standings shortcut, initial catalog retrieval,    *)
(* selection of the game record, the wait loop, the refresh after the      *)
(* wait, and the dispatch to stream.play_stream.                           *)
(*                                                                         *)
(* mlbam.gamedata, mlbam.stream and mlbam.util are other modules of the    *)
(* package.  Their results are modelled as follows:                        *)
(*   - retrieve_and_display_game_data returns any catalog (a list of days, *)
(*     each day an ordered list of game records), freshly built;           *)
(*   - stream.get_game_rec is the GameSelector of the specification;       *)
(*   - util.has_reached_time compares the clock with the scheduled start;  *)
(*   - stream.play_stream returns any exit code.                           *)
(***************************************************************************)
EXTENDS Integers, Sequences, FiniteSets, TLC

\* ------------------------------------------------------------------ bounds
MaxGames == 2          \* games listed in one day of a catalog
MaxOvershoot == 1      \* time.sleep(10) may return up to this much late

\* ------------------------------------------------------- program constants
SleepInterval == 10    \* time.sleep(10)
DotEvery == 6          \* if count % 6 == 0: print('.')

\* ---------------------------------------------------------- input domains
None == "None"
TeamArgs == {None, "bos", "tor"}      \* args.team, lower-cased (team_to_play)
Matchups == {<<"nyy", "bos">>}        \* <<home, away>> of the games listed
GameNumbers == {1, 2}                 \* args.game choices ('1', '2')
DaysArgs == {1, 2}                    \* args.days (default 1)
StartTimes == {30, 60}                \* game_rec['mlbdate']
InitClocks == {0, 45}                 \* wall clock when main starts
ExitCodes == {0, 1}                   \* what play_stream may return
NoExit == -1                          \* main has not returned

\* A game record as produced by retrieval number f (records are built anew by
\* every retrieval).  NoneRec stands for Python's None.
NoneRec == [home |-> None, away |-> None, gameNumber |-> 0, mlbdate |-> 0, fetch |-> 0]

GameRecs(f) ==
    { [home |-> m[1], away |-> m[2], gameNumber |-> g, mlbdate |-> t, fetch |-> f] :
        m \in Matchups, g \in GameNumbers, t \in StartTimes }

\* Sequences over S of length 0..n
SeqUpTo(S, n) == UNION { [1..k -> S] : k \in 0..n }

\* One day's game data of retrieval f, in catalog order
DayData(f) == SeqUpTo(GameRecs(f), MaxGames)

\* The lists retrieve_and_display_game_data may return for `days` days:
\* nothing, or one entry per day.  Only the first day is ever read by main, so
\* the further days are listed empty.
CatalogLists(f, days) ==
    {<<>>} \cup { <<d>> \o [i \in 1..(days - 1) |-> <<>>] : d \in DayData(f) }

\* --------------------------------------------------- collaborators' results
\* stream.get_game_rec: the first record, in catalog order, in which the team
\* plays at home or away and whose double-header number is the one asked for.
Matches(rec, team, game) ==
    /\ team \in {rec.home, rec.away}
    /\ rec.gameNumber = game

RECURSIVE get_game_rec(_, _, _)
get_game_rec(game_data, team, game) ==
    IF game_data = <<>> THEN NoneRec
    ELSE IF Matches(Head(game_data), team, game) THEN Head(game_data)
    ELSE get_game_rec(Tail(game_data), team, game)

\* util.has_reached_time
has_reached_time(now, mlbdate) == now >= mlbdate

\* ------------------------------------------------------------------- state
VARIABLES
    pc,              \* position in main
    standings,       \* args.standings given
    team_to_play,    \* args.team lower-cased, or None
    game,            \* args.game
    wait,            \* args.wait
    days,            \* args.days
    clock,           \* wall clock
    game_data_list,  \* local of main
    game_data,       \* local of main
    game_rec,        \* local of main
    count,           \* loop counter of the wait loop
    exitCode,        \* value returned by main (NoExit before)
    \* what the run did, in order
    fetchLog,        \* calls of retrieve_and_display_game_data
    selectLog,       \* results of stream.get_game_rec
    played,          \* records passed to stream.play_stream
    sleeps,          \* number of time.sleep calls
    dots,            \* progress dots printed inside the loop
    errorLog,        \* LOG.error messages
    gate             \* states of the start gate passed through, in order

vars == <<pc, standings, team_to_play, game, wait, days, clock, game_data_list,
          game_data, game_rec, count, exitCode, fetchLog, selectLog, played,
          sleeps, dots, errorLog, gate>>

args == <<standings, team_to_play, game, wait, days>>
locals == <<game_data_list, game_data, game_rec, count>>
history == <<fetchLog, selectLog, played, sleeps, dots, errorLog>>

NotWaiting == "NotWaiting"
Polling == "Polling"
Reached == "Reached"
Cancelled == "Cancelled"

Init ==
    /\ pc = "start"
    /\ standings \in BOOLEAN
    /\ team_to_play \in TeamArgs
    /\ game \in GameNumbers
    /\ wait \in BOOLEAN
    /\ days \in DaysArgs
    /\ clock \in InitClocks
    /\ game_data_list = <<>>
    /\ game_data = <<>>
    /\ game_rec = NoneRec
    /\ count = 0
    /\ exitCode = NoExit
    /\ fetchLog = <<>>
    /\ selectLog = <<>>
    /\ played = <<>>
    /\ sleeps = 0
    /\ dots = 0
    /\ errorLog = <<>>
    /\ gate = <<NotWaiting>>

\* One call of retrieve_and_display_game_data, as logged
FetchCall(d, display) == [days |-> d, display |-> display, clock |-> clock, gate |-> gate[Len(gate)]]

\* lines 142-144
Standings ==
    /\ pc = "start"
    /\ standings
    /\ pc' = "done"
    /\ exitCode' = 0
    /\ UNCHANGED <<args, clock, locals, history, gate>>

\* line 147
InitialFetch ==
    /\ pc = "start"
    /\ ~standings
    /\ \E result \in CatalogLists(1, days) :
          game_data_list' = result
    /\ fetchLog' = Append(fetchLog, FetchCall(days, team_to_play = None))
    /\ pc' = "fetched"
    /\ UNCHANGED <<args, clock, game_data, game_rec, count, exitCode, selectLog,
                   played, sleeps, dots, errorLog, gate>>

\* NoTeam with the `return 0` of line 151 lost: control falls through to the
\* selection of lines 153-160.
NoTeam_fallthrough ==
    /\ pc = "fetched"
    /\ team_to_play = None
    /\ IF Len(game_data_list) > 0
       THEN /\ game_data' = game_data_list[1]
            /\ game_rec' = get_game_rec(game_data_list[1], team_to_play, game)
            /\ selectLog' = Append(selectLog, get_game_rec(game_data_list[1], team_to_play, game))
            /\ pc' = "gate"
            /\ UNCHANGED exitCode
       ELSE /\ pc' = "done"
            /\ exitCode' = 0
            /\ UNCHANGED <<game_data, game_rec, selectLog>>
    /\ UNCHANGED <<args, clock, game_data_list, count, fetchLog, played, sleeps,
                   dots, errorLog, gate>>

\* lines 149-151
NoTeam ==
    /\ pc = "fetched"
    /\ team_to_play = None
    /\ pc' = "done"
    /\ exitCode' = 0
    /\ UNCHANGED <<args, clock, locals, history, gate>>

\* lines 153-160
Select ==
    /\ pc = "fetched"
    /\ team_to_play # None
    /\ IF Len(game_data_list) > 0
       THEN /\ game_data' = game_data_list[1]
            /\ game_rec' = get_game_rec(game_data_list[1], team_to_play, game)
            /\ selectLog' = Append(selectLog, get_game_rec(game_data_list[1], team_to_play, game))
            /\ pc' = "gate"
            /\ UNCHANGED exitCode
       ELSE /\ pc' = "done"
            /\ exitCode' = 0
            /\ UNCHANGED <<game_data, game_rec, selectLog>>
    /\ UNCHANGED <<args, clock, game_data_list, count, fetchLog, played, sleeps,
                   dots, errorLog, gate>>

\* Gate with `args.wait and` dropped from the condition of line 162.
Gate_nowaitflag ==
    /\ pc = "gate"
    /\ IF game_rec = NoneRec
       THEN /\ pc' = "crashed"
            /\ UNCHANGED <<count, gate>>
       ELSE IF ~has_reached_time(clock, game_rec.mlbdate)
       THEN /\ pc' = "loop"
            /\ count' = 0
            /\ gate' = Append(gate, Polling)
       ELSE /\ pc' = "dispatch"
            /\ gate' = Append(gate, Reached)
            /\ UNCHANGED count
    /\ UNCHANGED <<args, clock, game_data_list, game_data, game_rec, exitCode, history>>

\* line 162-165: `args.wait and not util.has_reached_time(game_rec['mlbdate'])`.
\* With wait set, game_rec is subscripted; subscripting None raises TypeError,
\* which nothing in main catches.
Gate ==
    /\ pc = "gate"
    /\ IF wait /\ game_rec = NoneRec
       THEN /\ pc' = "crashed"
            /\ UNCHANGED <<count, gate>>
       ELSE IF wait /\ ~has_reached_time(clock, game_rec.mlbdate)
       THEN /\ pc' = "loop"
            /\ count' = 0
            /\ gate' = Append(gate, Polling)
       ELSE /\ pc' = "dispatch"
            /\ gate' = Append(gate, Reached)
            /\ UNCHANGED count
    /\ UNCHANGED <<args, clock, game_data_list, game_data, game_rec, exitCode, history>>

\* LoopCheck with an iteration limit added to the loop condition:
\* `while count < 2 and not util.has_reached_time(...)`.
LoopCheck_limit ==
    /\ pc = "loop"
    /\ IF count < 2 /\ ~has_reached_time(clock, game_rec.mlbdate)
       THEN /\ pc' = "sleep"
            /\ UNCHANGED gate
       ELSE /\ pc' = "refresh"
            /\ gate' = Append(gate, Reached)
    /\ UNCHANGED <<args, clock, locals, exitCode, history>>

\* line 166: the loop condition
LoopCheck ==
    /\ pc = "loop"
    /\ IF ~has_reached_time(clock, game_rec.mlbdate)
       THEN /\ pc' = "sleep"
            /\ UNCHANGED gate
       ELSE /\ pc' = "refresh"
            /\ gate' = Append(gate, Reached)
    /\ UNCHANGED <<args, clock, locals, exitCode, history>>

\* Sleep with time.sleep(1) in place of time.sleep(10).
Sleep_short ==
    /\ pc = "sleep"
    /\ \E late \in 0..MaxOvershoot : clock' = clock + 1 + late
    /\ sleeps' = sleeps + 1
    /\ count' = count + 1
    /\ dots' = IF (count + 1) % DotEvery = 0 THEN dots + 1 ELSE dots
    /\ pc' = "loop"
    /\ UNCHANGED <<args, game_data_list, game_data, game_rec, exitCode, fetchLog,
                   selectLog, played, errorLog, gate>>

\* lines 167-170: the loop body
Sleep ==
    /\ pc = "sleep"
    /\ \E late \in 0..MaxOvershoot : clock' = clock + SleepInterval + late
    /\ sleeps' = sleeps + 1
    /\ count' = count + 1
    /\ dots' = IF (count + 1) % DotEvery = 0 THEN dots + 1 ELSE dots
    /\ pc' = "loop"
    /\ UNCHANGED <<args, game_data_list, game_data, game_rec, exitCode, fetchLog,
                   selectLog, played, errorLog, gate>>

\* Interrupt with the loop wrapped in `try: ... except KeyboardInterrupt: pass`:
\* the interrupt ends the loop and main goes on to the refresh.
Interrupt_swallowed ==
    /\ pc \in {"loop", "sleep"}
    /\ pc' = "refresh"
    /\ gate' = Append(gate, Cancelled)
    /\ UNCHANGED <<args, clock, locals, exitCode, history>>

\* Ctrl-c while main is in the wait loop: KeyboardInterrupt is raised in main,
\* which has no handler for it, so main is left without returning.
Interrupt ==
    /\ pc \in {"loop", "sleep"}
    /\ pc' = "cancelled"
    /\ gate' = Append(gate, Cancelled)
    /\ UNCHANGED <<args, clock, locals, exitCode, history>>

\* Refresh with the `return 0` of line 179 lost: after logging the error main
\* goes on to line 181 and 183 with the game data held before the wait.
Refresh_noreturn ==
    /\ pc = "refresh"
    /\ fetchLog' = Append(fetchLog, FetchCall(1, FALSE))
    /\ \E result \in CatalogLists(2, 1) :
          /\ game_data_list' = result
          /\ IF Len(result) > 0
             THEN /\ game_data' = result[1]
                  /\ game_rec' = get_game_rec(result[1], team_to_play, game)
                  /\ selectLog' = Append(selectLog, get_game_rec(result[1], team_to_play, game))
                  /\ UNCHANGED errorLog
             ELSE /\ errorLog' = Append(errorLog, "no game data found after refresh on wait")
                  /\ game_rec' = get_game_rec(game_data, team_to_play, game)
                  /\ selectLog' = Append(selectLog, get_game_rec(game_data, team_to_play, game))
                  /\ UNCHANGED game_data
    /\ pc' = "dispatch"
    /\ UNCHANGED <<args, clock, count, played, sleeps, dots, gate, exitCode>>

\* Refresh calling the retrieval with args.days and the display flag of the
\* first call, instead of 1 and False.
Refresh_days ==
    /\ pc = "refresh"
    /\ fetchLog' = Append(fetchLog, FetchCall(days, team_to_play = None))
    /\ \E result \in CatalogLists(2, days) :
          /\ game_data_list' = result
          /\ IF Len(result) > 0
             THEN /\ game_data' = result[1]
                  /\ game_rec' = get_game_rec(result[1], team_to_play, game)
                  /\ selectLog' = Append(selectLog, get_game_rec(result[1], team_to_play, game))
                  /\ pc' = "dispatch"
                  /\ UNCHANGED <<errorLog, exitCode>>
             ELSE /\ errorLog' = Append(errorLog, "no game data found after refresh on wait")
                  /\ pc' = "done"
                  /\ exitCode' = 0
                  /\ UNCHANGED <<game_data, game_rec, selectLog>>
    /\ UNCHANGED <<args, clock, count, played, sleeps, dots, gate>>

\* Refresh without line 181: the catalog is fetched again but game_rec keeps
\* the record selected before the wait.
Refresh_stale ==
    /\ pc = "refresh"
    /\ fetchLog' = Append(fetchLog, FetchCall(1, FALSE))
    /\ \E result \in CatalogLists(2, 1) :
          /\ game_data_list' = result
          /\ IF Len(result) > 0
             THEN /\ game_data' = result[1]
                  /\ pc' = "dispatch"
                  /\ UNCHANGED <<errorLog, exitCode>>
             ELSE /\ errorLog' = Append(errorLog, "no game data found after refresh on wait")
                  /\ pc' = "done"
                  /\ exitCode' = 0
                  /\ UNCHANGED game_data
    /\ UNCHANGED <<args, clock, count, played, sleeps, dots, gate, game_rec, selectLog>>

\* lines 172-181
Refresh ==
    /\ pc = "refresh"
    /\ fetchLog' = Append(fetchLog, FetchCall(1, FALSE))
    /\ \E result \in CatalogLists(2, 1) :
          /\ game_data_list' = result
          /\ IF Len(result) > 0
             THEN /\ game_data' = result[1]
                  /\ game_rec' = get_game_rec(result[1], team_to_play, game)
                  /\ selectLog' = Append(selectLog, get_game_rec(result[1], team_to_play, game))
                  /\ pc' = "dispatch"
                  /\ UNCHANGED <<errorLog, exitCode>>
             ELSE /\ errorLog' = Append(errorLog, "no game data found after refresh on wait")
                  /\ pc' = "done"
                  /\ exitCode' = 0
                  /\ UNCHANGED <<game_data, game_rec, selectLog>>
    /\ UNCHANGED <<args, clock, count, played, sleeps, dots, gate>>

\* line 183
Dispatch ==
    /\ pc = "dispatch"
    /\ played' = Append(played, game_rec)
    /\ \E rc \in ExitCodes : exitCode' = rc
    /\ pc' = "done"
    /\ UNCHANGED <<args, clock, locals, fetchLog, selectLog, sleeps, dots, errorLog, gate>>

Next ==
    \/ Standings
    \/ InitialFetch
    \/ NoTeam
    \/ Select
    \/ Gate
    \/ LoopCheck
    \/ Sleep
    \/ Interrupt
    \/ Refresh
    \/ Dispatch

Spec == Init /\ [][Next]_vars

\* The main thread keeps running: every step of main that can be taken is
\* taken eventually.  Nothing obliges the user to press Ctrl-c.
Step ==
    \/ Standings
    \/ InitialFetch
    \/ NoTeam
    \/ Select
    \/ Gate
    \/ LoopCheck
    \/ Sleep
    \/ Refresh
    \/ Dispatch

FairSpec == Spec /\ WF_vars(Step)

\* ------------------------------------------------------------ vocabulary
GateNow == gate[Len(gate)]
Waited == Len(gate) >= 2 /\ gate[2] = Polling
\* the scheduled start of the record the gate was entered with
ScheduledStart == selectLog[1].mlbdate
Returned == pc = "done"
Crashed == pc = "crashed"

\* ------------------------------------------------------------------ claims

\* C1: an interrupt that arrives while main is in the wait loop ends the run
\* in Cancelled: main never returns, stream.play_stream is not called and the
\* refresh retrieval after the wait is not made.
C1_CancelStopsRun ==
    Cancelled \in { gate[i] : i \in 1..Len(gate) } =>
        /\ gate = <<NotWaiting, Polling, Cancelled>>
        /\ pc = "cancelled"
        /\ played = <<>>
        /\ Len(fetchLog) = 1
        /\ Len(selectLog) = 1
        /\ exitCode = NoExit

\* C1 witness: the interrupt arrived after the loop had already slept.
C1_Witness == GateNow = Cancelled /\ sleeps > 0 /\ pc = "cancelled"

\* C2 (as claimed): a team is given, the first catalog is not empty and the
\* selector finds no record for team and game number; then main returns 0
\* without an error and without calling stream.play_stream, whatever wait is.
C2_NoMatchReturnsZero ==
    (team_to_play # None /\ Len(selectLog) >= 1 /\ selectLog[1] = NoneRec) =>
        /\ ~Crashed
        /\ played = <<>>
        /\ (Returned => exitCode = 0)

\* C3 (as claimed): after a completed wait, the refreshed catalog is not
\* empty but the selector finds no record in it; then main stops without
\* calling stream.play_stream and with an entry in the error log.
C3_RefreshNoMatchAborts ==
    (Waited /\ Len(selectLog) = 2 /\ selectLog[2] = NoneRec) =>
        /\ ~Crashed
        /\ played = <<>>
        /\ (Returned => errorLog # <<>>)

\* C4: after a completed wait, an empty catalog from the refresh retrieval
\* makes main log an error and return 0; stream.play_stream is not called and
\* the selector is not called a second time.
C4_EmptyRefreshReturnsZero ==
    (Len(fetchLog) = 2 /\ game_data_list = <<>>) =>
        /\ Returned
        /\ exitCode = 0
        /\ Len(errorLog) = 1
        /\ played = <<>>
        /\ Len(selectLog) = 1

\* C4 witness: the loop slept, the start was reached, the refresh came back empty.
C4_Witness ==
    /\ gate = <<NotWaiting, Polling, Reached>>
    /\ sleeps > 0
    /\ Len(fetchLog) = 2
    /\ game_data_list = <<>>
    /\ Returned

\* The step taken at line 162 when no wait is needed, and the states after it.
C5_GateStep ==
    (/\ pc = "gate"
     /\ \/ ~wait
        \/ (game_rec # NoneRec /\ has_reached_time(clock, game_rec.mlbdate)))
    => (/\ pc' = "dispatch"
        /\ gate' = <<NotWaiting, Reached>>
        /\ UNCHANGED <<game_rec, clock, sleeps, fetchLog, selectLog>>)

C5_AfterDirect ==
    gate = <<NotWaiting, Reached>> =>
        /\ pc \in {"dispatch", "done"}
        /\ sleeps = 0
        /\ Len(fetchLog) = 1
        /\ Len(selectLog) = 1
        /\ game_rec = selectLog[1]
        /\ (Returned => played = <<selectLog[1]>>)
        /\ (~Returned => played = <<>>)

\* C5: when wait is off (whatever the scheduled start), or wait is on and the
\* clock has reached the scheduled start at the check of line 162, the gate
\* goes from NotWaiting straight to Reached: Polling is never entered, nothing
\* sleeps, nothing is fetched again, and stream.play_stream gets the record
\* selected from the first catalog.
C5_NoWaitGoesStraightToReached == [][C5_GateStep]_vars /\ []C5_AfterDirect

\* C5 witness: wait was on, the start time had passed, the first record was played.
C5_Witness ==
    /\ wait
    /\ gate = <<NotWaiting, Reached>>
    /\ Returned
    /\ played = <<selectLog[1]>>
    /\ selectLog[1] # NoneRec

\* The steps into and round the wait loop, and what has not happened while
\* the clock is short of the scheduled start.
C6_Enter ==
    (pc = "gate" /\ wait /\ game_rec # NoneRec /\ ~has_reached_time(clock, game_rec.mlbdate))
    => (pc' = "loop" /\ gate' = <<NotWaiting, Polling>>)

C6_Iterate ==
    /\ (pc = "loop" /\ ~has_reached_time(clock, ScheduledStart) /\ pc' # "cancelled")
           => (pc' = "sleep" /\ GateNow' = Polling)
    /\ (pc = "sleep" /\ pc' # "cancelled")
           => (pc' = "loop" /\ clock' >= clock + SleepInterval /\ sleeps' = sleeps + 1)
    /\ (pc = "loop" /\ has_reached_time(clock, ScheduledStart) /\ pc' # "cancelled")
           => (pc' = "refresh" /\ gate' = <<NotWaiting, Polling, Reached>>)

C6_NothingEarly ==
    (Waited /\ ~has_reached_time(clock, ScheduledStart)) =>
        /\ pc \in {"loop", "sleep", "cancelled"}
        /\ GateNow \in {Polling, Cancelled}
        /\ Len(fetchLog) = 1
        /\ played = <<>>

\* C6: with wait on and the scheduled start still ahead, main enters Polling
\* and stays there, each iteration sleeping at least SleepInterval and then
\* checking again; while the clock has not reached the scheduled start there
\* is no refresh retrieval and no call of stream.play_stream; the first check
\* that finds the start reached ends Polling in Reached.
C6_PollsUntilStart == [][C6_Enter /\ C6_Iterate]_vars /\ []C6_NothingEarly

\* C6 witness: the loop slept several times and then found the start reached.
C6_Witness ==
    /\ gate = <<NotWaiting, Polling, Reached>>
    /\ sleeps >= 3
    /\ pc = "refresh"

\* C7: the catalog is retrieved at most twice in a run: first with args.days,
\* from NotWaiting; the second time only once the wait loop has ended with the
\* start reached, for one day and with the display off.  No retrieval is
\* made from Polling and none is repeated.
C7_AtMostTwoFetches ==
    /\ Len(fetchLog) <= 2
    /\ (pc # "start" /\ ~standings) => Len(fetchLog) >= 1
    /\ Len(fetchLog) >= 1 =>
          /\ fetchLog[1].days = days
          /\ fetchLog[1].gate = NotWaiting
    /\ Len(fetchLog) = 2 =>
          /\ fetchLog[2].days = 1
          /\ fetchLog[2].display = FALSE
          /\ fetchLog[2].gate = Reached
          /\ has_reached_time(fetchLog[2].clock, ScheduledStart)
          /\ gate = <<NotWaiting, Polling, Reached>>
    /\ \A i \in 1..Len(fetchLog) : fetchLog[i].gate # Polling
    /\ GateNow = Polling => Len(fetchLog) = 1

\* C7 witness: a run asked for two days and fetched a second time after the wait.
C7_Witness == Len(fetchLog) = 2 /\ days = 2 /\ Returned

\* C8 (as claimed): with no team given, main makes the first retrieval with
\* the display on and returns 0, and never calls the selector, enters the wait
\* loop or calls stream.play_stream.
C8_NoTeamFetchesAndReturns ==
    team_to_play = None =>
        /\ selectLog = <<>>
        /\ gate = <<NotWaiting>>
        /\ sleeps = 0
        /\ played = <<>>
        /\ (Returned => /\ exitCode = 0
                        /\ Len(fetchLog) = 1
                        /\ fetchLog[1].display = TRUE)

\* C8 (amended): with no team given, main returns 0 and never calls the
\* selector, enters the wait loop or calls stream.play_stream; it makes
\* the first retrieval, with the display on, unless standings were asked for,
\* in which case it makes no retrieval at all.
C8_NoTeamReturnsZero ==
    team_to_play = None =>
        /\ pc \in {"start", "fetched", "done"}
        /\ selectLog = <<>>
        /\ gate = <<NotWaiting>>
        /\ sleeps = 0
        /\ played = <<>>
        /\ (Returned =>
              /\ exitCode = 0
              /\ (standings => fetchLog = <<>>)
              /\ (~standings => /\ Len(fetchLog) = 1
                                /\ fetchLog[1].display = TRUE
                                /\ fetchLog[1].days = days))

\* C8 witness: no team, no standings, the catalog was shown and main returned.
C8_Witness ==
    /\ team_to_play = None
    /\ ~standings
    /\ Returned
    /\ Len(fetchLog) = 1
    /\ Len(game_data_list) > 0

\* C9: when the wait loop has ended with the start reached, what precedes a
\* dispatch is exactly one refresh retrieval and then one more run of the
\* selector, on the refreshed catalog; stream.play_stream gets that result
\* and never the record held during the wait.
C9_DispatchUsesRefreshedRecord ==
    (Waited /\ pc \in {"dispatch", "done"} /\ (Returned => played # <<>>)) =>
        /\ gate = <<NotWaiting, Polling, Reached>>
        /\ Len(fetchLog) = 2
        /\ Len(selectLog) = 2
        /\ Len(game_data_list) > 0
        /\ \A i \in 1..Len(game_data_list[1]) : game_data_list[1][i].fetch = 2
        /\ selectLog[2] = get_game_rec(game_data_list[1], team_to_play, game)
        /\ game_rec = selectLog[2]
        /\ game_rec # selectLog[1]
        /\ game_rec.fetch # 1
        /\ (Returned => played = <<selectLog[2]>>)

\* C9 witness: the record played after the wait comes from the second
\* retrieval and its start time differs from the one waited for.
C9_Witness ==
    /\ Waited
    /\ Returned
    /\ Len(played) = 1
    /\ played[1].fetch = 2
    /\ played[1].mlbdate # selectLog[1].mlbdate

\* A step that leaves Polling.
C10_LeaveStep ==
    (GateNow = Polling /\ GateNow' # Polling) =>
        \/ GateNow' = Cancelled
        \/ (GateNow' = Reached /\ has_reached_time(clock, game_rec.mlbdate))

\* C10: the wait loop has no limit of its own: Polling is left only by a
\* check that finds the start reached or by an interrupt.  As every sleep
\* moves the clock on, a run that keeps going leaves Polling eventually
\* (in Reached, unless interrupted).
C10_NoTimeout ==
    /\ [][C10_LeaveStep]_vars
    /\ (GateNow = Polling) ~> (GateNow \in {Reached, Cancelled})

\* C10 witness: the loop went round six times before the start was reached.
C10_Witness == GateNow = Reached /\ Waited /\ count >= 6 /\ dots >= 1

====
